---- MODULE Spec2Model ----
(***************************************************************************)
(* A model of the `rad rm` and `rad auth` commands of radicle-client-tools *)
(* (rm/src/lib.rs, auth/src/lib.rs, common/src/keys.rs).                   *)
(*                                                                         *)
(* The persistent world is the profile home (stored profiles and the       *)
(* passphrase each secret key is encrypted with), the active-profile       *)
(* pointer, the monorepo of the active profile (reference namespaces and   *)
(* peer-tracking relationships), the keys held by ssh-agent, and the       *)
(* configuration and identity document of each profile.  A command is run  *)
(* as a sequence of steps; a step ends where the code blocks on a prompt   *)
(* or hands over to a call that changes the persistent world.              *)
(*                                                                         *)
(* SpecRm runs rm, SpecAuth follows auth into authenticate, SpecInit       *)
(* follows auth into init, and SpecArgs runs Options::from_args of auth.   *)
(***************************************************************************)
EXTENDS Integers, Sequences, FiniteSets, TLC

\* TLC keeps the fields of a record in the order in which their names first
\* occur in the module.  Naming them here, sorted, makes that the order in
\* which every record below is written.
Fields ==
    [active : {}, agent : {}, arg : {}, cmd : {}, configs : {}, home : {},
     id : {}, init : {}, local : {}, name : {}, namespaces : {}, object : {},
     passphrase : {}, persons : {}, profile : {}, prompt : {}, tag : {},
     text : {}, tracked : {}, urn : {}]

\* ------------------------------------------------------------------ bounds
MaxProfiles == 3
MaxUrns == 1
MaxPeers == 1

ProfileIds == 1..MaxProfiles
Urns == 1..MaxUrns
Peers == 1..MaxPeers

\* Rust's Option
None == <<>>
Some(x) == <<x>>
Unwrap(o) == o[1]
Option(S) == {None} \cup {Some(x) : x \in S}

\* Passphrases are character strings; one of them ends in whitespace, which
\* `trim_end` removes when the passphrase is read from a pipe.
Passphrases == {<<"a">>, <<"a", " ">>}

\* An argument string of the command line: its text, and what the parsers
\* of librad make of it: `urn` is the outcome of Urn::from_str on it and `id`
\* the outcome of ProfileId::from_str (None for a parse error).  Both may
\* accept the same string.
Texts == {"x", "y"}

\* Names given with --name or typed at the prompt, as sequences of characters.
Names == {<<"u">>, <<"v">>, <<"u", " ", "A">>}

\* An identity document of a profile: its name, and whether it is set as the
\* local identity of the profile's storage.
Person(n, is_local) == [local |-> is_local, name |-> n]
Strings == [id : Option(ProfileIds), text : Texts, urn : Option(Urns)]

Urn_from_str(value) == value.urn
ProfileId_from_str(value) == value.id

\* ------------------------------------------------------------------ state
VARIABLES
    home,         \* stored profiles: ProfileId -> passphrase of its secret key
    active,       \* the active-profile pointer, an Option(ProfileId)
    namespaces,   \* urns with a refs/namespaces/<urn> directory in the monorepo
    tracked,      \* urn -> peers tracked for it
    agent,        \* profiles whose key ssh-agent holds
    configs,      \* profiles whose configuration is initialised
    persons,      \* ProfileId -> name of its local identity document
    pc,           \* position of the running command
    options,      \* the parsed Options of the running command
    profiles,     \* `profiles` of auth's run: the ids profile::list() returned
    profile,      \* `profile` of run / authenticate: the result of ctx.profile()
    selection,    \* `selection` of authenticate
    secret_input, \* the passphrase obtained from the terminal or from stdin
    name,         \* `name` of init: the sanitized name
    args,         \* the arguments handed to Options::from_args of auth
    parser,       \* lexopt::Parser: the position of the next argument
    result,       \* how the command ended
    log,          \* prompts shown and mutating calls made by the running command
    pre           \* the persistent world when the command was started

vars == <<home, active, namespaces, tracked, agent, configs, persons, pc,
          options, profiles, profile, selection, secret_input, name, args,
          parser, result, log, pre>>

world == [active |-> active, agent |-> agent, configs |-> configs,
          home |-> home, namespaces |-> namespaces, persons |-> persons,
          tracked |-> tracked]

locals == <<profiles, profile, selection, secret_input>>

Remove(f, x) == [y \in DOMAIN f \ {x} |-> f[y]]

Has(seq, e) == \E i \in 1..Len(seq) : seq[i] = e

\* First position of e in seq, Len(seq) + 1 when it does not occur.
Index(seq, e) ==
    IF Has(seq, e) THEN CHOOSE i \in 1..Len(seq) :
                            seq[i] = e /\ \A j \in 1..(i - 1) : seq[j] # e
    ELSE Len(seq) + 1

\* --------------------------------------------------------- rm: the options
Project(urn) == [tag |-> "Project", urn |-> urn]
Profile(id) == [id |-> id, tag |-> "Profile"]
Unknown(arg) == [arg |-> arg, tag |-> "Unknown"]

\* Object::from: the urn parser is tried first, then the profile-id parser.
\* (Object_from_profile_first: the variant with the two tried in the other
\* order.)
Object_from_profile_first(value) ==
    IF ProfileId_from_str(value) # None
    THEN Profile(Unwrap(ProfileId_from_str(value)))
    ELSE IF Urn_from_str(value) # None
    THEN Project(Unwrap(Urn_from_str(value)))
    ELSE Unknown(value)

Object_from(value) ==
    IF Urn_from_str(value) # None
    THEN Project(Unwrap(Urn_from_str(value)))
    ELSE IF ProfileId_from_str(value) # None
    THEN Profile(Unwrap(ProfileId_from_str(value)))
    ELSE Unknown(value)

\* Options::from_args of rm for the argument lists `<value>` and `<value> -i`.
RmOptions(value, i) ==
    [arg |-> value, cmd |-> "rm", object |-> Object_from(value), prompt |-> i]

\* ------------------------------------------------- calls into other crates
\* ctx.profile(): the active profile, an error when it cannot be loaded.
ctx_profile == IF active # None /\ Unwrap(active) \in DOMAIN home
               THEN active ELSE None

\* project::get(&storage, urn): Some project when its namespace is in storage.
project_get(urn) == IF urn \in namespaces THEN Some(urn) ELSE None

\* profile::get(id): the stored profile with that id.
profile_get(id) == IF id \in DOMAIN home THEN Some(id) ELSE None

\* keys::load_secret_key(&profile, passphrase): decrypts the secret key file.
load_secret_key(p, passphrase) == p \in DOMAIN home /\ home[p] = passphrase

\* profile::remove(&profile): the home without the profile's persisted state.
profile_remove(p) == Remove(home, p)

\* The configuration and the identity document are part of that state.
profile_remove_configs(p) == configs \ {p}
profile_remove_persons(p) == Remove(persons, p)

\* profile::set(id): the pointer after the profile is made the active one.
\* (profile_set_unwritten: the variant that leaves the pointer as it is.)
profile_set_unwritten(id) == active

profile_set(id) == Some(id)

\* profile::list(): the stored profiles, or an error.
profile_list(ok) == IF ok THEN Some(DOMAIN home) ELSE None

\* rad_untrack::execute(urn, Options { peer: None }, &profile): every peer of
\* the project is untracked; when it fails some of them may already be.
rad_untrack_execute(urn, ok, rest) ==
    [tracked EXCEPT ![urn] = IF ok THEN {} ELSE rest]

\* char::is_whitespace, on the characters of the model
is_whitespace(c) == c \in {" ", "\n"}

\* str::trim_end
RECURSIVE trim_end(_)
trim_end(s) ==
    IF s # <<>> /\ is_whitespace(s[Len(s)])
    THEN trim_end(SubSeq(s, 1, Len(s) - 1)) ELSE s

\* Stdin::read_line: the typed line with its newline.
read_line(typed) == Append(typed, "\n")

\* ------------------------------------------------------------ tail of a run
Finish(r) == /\ pc' = "done"
             /\ result' = r

Goto(label) == /\ pc' = label
               /\ result' = result

Emit(e) == log' = Append(log, e)

Quiet == log' = log

\* A command is started from the shell prompt.
Start(opts) ==
    /\ pc = "idle"
    /\ options' = opts
    /\ pc' = opts.cmd
    /\ result' = "Running"
    /\ log' = <<>>
    /\ pre' = world
    /\ profiles' = {}
    /\ profile' = None
    /\ selection' = None
    /\ secret_input' = None
    /\ name' = None
    /\ UNCHANGED <<args, parser, configs, persons, home, active, namespaces, tracked, agent>>

\* The process exits; the next command finds the world as this one left it.
Exit ==
    /\ pc = "done"
    /\ pc' = "idle"
    /\ options' = [cmd |-> "none"]
    /\ result' = "Running"
    /\ log' = <<>>
    /\ pre' = world
    /\ profiles' = {}
    /\ profile' = None
    /\ selection' = None
    /\ secret_input' = None
    /\ name' = None
    /\ UNCHANGED <<args, parser, configs, persons, home, active, namespaces, tracked, agent>>

\* ------------------------------------------------------------------- rm
RmInvoke == \E value \in Strings, i \in BOOLEAN : Start(RmOptions(value, i))

\* `!options.prompt || term::confirm(..)`: the prompt is shown only with -i.
\* (NeedsConfirmNever: the variant that never asks.)
NeedsConfirmNever(opts) == FALSE

NeedsConfirm(opts) == opts.prompt

\* `profile.id() == id`
\* (IsActiveOnlyWithPrompt: the variant that guards only under -i.)
IsActiveOnlyWithPrompt(opts, p) == opts.prompt /\ p = Some(opts.object.id)

IsActive(opts, p) == p = Some(opts.object.id)

\* `project::get(&storage, urn)?.is_none()`
\* (ProjectMissingIgnored: the variant without the existence check.)
ProjectMissingIgnored(got) == FALSE

ProjectMissing(got) == got = None

\* Object::Unknown(arg) => bail
RmUnknown ==
    /\ pc = "rm"
    /\ options.object.tag = "Unknown"
    /\ Finish("UnknownObject")
    /\ Quiet
    /\ UNCHANGED <<args, parser, configs, persons, name, home, active, namespaces, tracked, agent, options, locals, pre>>

\* Object::Project(urn), up to the confirmation: the project is resolved.
RmProject ==
    /\ pc = "rm"
    /\ options.object.tag = "Project"
    /\ \E io \in BOOLEAN :
         IF ctx_profile = None
         THEN Finish("NoActiveProfile") /\ UNCHANGED profile
         ELSE IF ~io
         THEN Finish("Upstream") /\ UNCHANGED profile
         ELSE IF ProjectMissing(project_get(options.object.urn))
         THEN Finish("NotFound") /\ UNCHANGED profile
         ELSE /\ profile' = ctx_profile
              /\ IF NeedsConfirm(options)
                 THEN Goto("rm_confirm") ELSE Goto("rm_untrack")
    /\ Quiet
    /\ UNCHANGED <<args, parser, configs, persons, name, home, active, namespaces, tracked, agent, options,
                   profiles, selection, secret_input, pre>>

\* Object::Profile(id), up to the confirmation: the guard against removing
\* the active profile, then the target and its user name are loaded.
RmProfile ==
    /\ pc = "rm"
    /\ options.object.tag = "Profile"
    /\ \E io \in BOOLEAN :
         IF ctx_profile = None
         THEN Finish("NoActiveProfile") /\ UNCHANGED profile
         ELSE IF IsActive(options, ctx_profile)
         THEN Finish("CannotRemoveActive") /\ UNCHANGED profile
         ELSE IF profile_get(options.object.id) = None
         THEN Finish("NotFound") /\ UNCHANGED profile
         ELSE IF ~io
         THEN Finish("Upstream") /\ UNCHANGED profile
         ELSE /\ profile' = profile_get(options.object.id)
              /\ IF NeedsConfirm(options)
                 THEN Goto("rm_confirm") ELSE Goto("rm_secret_input")
    /\ Quiet
    /\ UNCHANGED <<args, parser, configs, persons, name, home, active, namespaces, tracked, agent, options,
                   profiles, selection, secret_input, pre>>

\* What follows an accepted confirmation.
AfterConfirm(opts) ==
    IF opts.object.tag = "Project" THEN "rm_untrack" ELSE "rm_secret_input"

\* The answer of term::confirm decides whether the removal goes on.
\* (ConfirmedAnyway: the variant that goes on whatever the answer.)
ConfirmedAnyway(answer) == TRUE

Confirmed(answer) == answer

\* term::confirm(..): the user accepts or declines.
RmConfirm ==
    /\ pc = "rm_confirm"
    /\ \E answer \in BOOLEAN :
         /\ Emit(IF answer THEN "confirm_yes" ELSE "confirm_no")
         /\ IF Confirmed(answer)
            THEN Goto(AfterConfirm(options)) ELSE Finish("Ok")
    /\ UNCHANGED <<args, parser, configs, persons, name, home, active, namespaces, tracked, agent, options, locals, pre>>

\* `rad_untrack::execute(..)?`: the deletion follows only a successful untrack.
\* (AfterUntrackRegardless: the variant that drops the `?`.)
AfterUntrackRegardless(ok) == "rm_remove_dir_all"

AfterUntrack(ok) == IF ok THEN "rm_remove_dir_all" ELSE "done"

\* `rad_untrack::execute(urn, rad_untrack::Options { peer: None }, &profile)?`
RmUntrack ==
    /\ pc = "rm_untrack"
    /\ Emit("untrack")
    /\ \E ok \in BOOLEAN, rest \in SUBSET tracked[options.object.urn] :
         /\ tracked' = rad_untrack_execute(options.object.urn, ok, rest)
         /\ pc' = AfterUntrack(ok)
         /\ result' = IF pc' = "done" THEN "Upstream" ELSE result
    /\ UNCHANGED <<args, parser, configs, persons, name, home, active, namespaces, agent, options, locals, pre>>

\* fs::remove_dir_all(namespace)?
RmRemoveDirAll ==
    /\ pc = "rm_remove_dir_all"
    /\ Emit("remove_dir_all")
    /\ \E ok \in BOOLEAN :
         IF ok
         THEN /\ namespaces' = namespaces \ {options.object.urn}
              /\ Finish("Ok")
         ELSE /\ UNCHANGED namespaces
              /\ Finish("Upstream")
    /\ UNCHANGED <<args, parser, configs, persons, name, home, active, tracked, agent, options, locals, pre>>

\* The passphrase: term::secret_input() on a terminal, else one line of
\* stdin without its trailing whitespace.
RmSecretInput ==
    /\ pc = "rm_secret_input"
    /\ Emit("secret_input")
    /\ \E typed \in Passphrases, tty \in BOOLEAN, io \in BOOLEAN :
         IF tty
         THEN secret_input' = Some(typed) /\ Goto("rm_remove")
         ELSE IF ~io
         THEN UNCHANGED secret_input /\ Finish("Upstream")
         ELSE secret_input' = Some(trim_end(read_line(typed))) /\ Goto("rm_remove")
    /\ UNCHANGED <<args, parser, configs, persons, name, home, active, namespaces, tracked, agent, options,
                   profiles, profile, selection, pre>>

\* `keys::load_secret_key(&profile, secret_input).is_ok()`
\* (KeyLoadedUnchecked: the variant that accepts any passphrase.)
KeyLoadedUnchecked(p, passphrase) == TRUE

KeyLoaded(p, passphrase) == load_secret_key(p, passphrase)

\* profile::remove(&profile)? behind the passphrase check.
RmRemove ==
    /\ pc = "rm_remove"
    /\ IF KeyLoaded(Unwrap(profile), Unwrap(secret_input))
       THEN /\ Emit("profile_remove")
            /\ \E ok \in BOOLEAN :
                 IF ok
                 THEN /\ home' = profile_remove(Unwrap(profile))
                      /\ configs' = profile_remove_configs(Unwrap(profile))
                      /\ persons' = profile_remove_persons(Unwrap(profile))
                      /\ Finish("Ok")
                 ELSE UNCHANGED <<home, configs, persons>> /\ Finish("Upstream")
       ELSE /\ Quiet
            /\ UNCHANGED <<home, configs, persons>>
            /\ Finish("CredentialError")
    /\ UNCHANGED <<args, parser, name, active, namespaces, tracked, agent, options, locals, pre>>

RmNext ==
    \/ RmInvoke
    \/ RmUnknown
    \/ RmProject
    \/ RmProfile
    \/ RmConfirm
    \/ RmUntrack
    \/ RmRemoveDirAll
    \/ RmSecretInput
    \/ RmRemove
    \/ Exit

\* The worlds a command may be started in.
InitWorld ==
    /\ home \in UNION {[S -> Passphrases] : S \in SUBSET ProfileIds}
    /\ active \in {None} \cup {Some(p) : p \in DOMAIN home}
    /\ namespaces \in SUBSET Urns
    /\ tracked \in [Urns -> SUBSET Peers]
    /\ \A u \in Urns : tracked[u] # {} => u \in namespaces
    /\ active = None => namespaces = {}
    /\ agent \in SUBSET ProfileIds
    /\ configs = DOMAIN home
    /\ persons = [p \in DOMAIN home |-> Person(<<"u">>, TRUE)]

InitShell ==
    /\ pc = "idle"
    /\ options = [cmd |-> "none"]
    /\ profiles = {}
    /\ profile = None
    /\ selection = None
    /\ secret_input = None
    /\ name = None
    /\ args = <<>>
    /\ parser = 1
    /\ result = "Running"
    /\ log = <<>>
    /\ pre = world

InitRm == InitWorld /\ agent = {} /\ InitShell

SpecRm == InitRm /\ [][RmNext]_vars

\* ------------------------------------------------------------------ auth
\* The Options of auth: --init, --active, --name, --passphrase and an
\* optional profile id.
AuthOptions(init, use_active, nm, pw, id) ==
    [active |-> use_active, cmd |-> "auth", init |-> init, name |-> nm,
     passphrase |-> pw, profile |-> id]

\* auth without --name and --passphrase.
AuthInvoke ==
    \E init \in BOOLEAN, use_active \in BOOLEAN, id \in Option(ProfileIds) :
        Start(AuthOptions(init, use_active, None, None, id))

\* auth with any options from_args can produce: a name and a passphrase are
\* only taken after --init.
InitInvoke ==
    \E init \in BOOLEAN, use_active \in BOOLEAN, nm \in Option(Names),
       pw \in Option(Passphrases), id \in Option(ProfileIds) :
        /\ ~init => nm = None /\ pw = None
        /\ Start(AuthOptions(init, use_active, nm, pw, id))

\* `if options.profile.is_some() { anyhow::bail!(..) }`
\* (UsageErrorNever: the variant without the check.)
UsageErrorNever(opts) == FALSE

UsageError(opts) == opts.profile # None

\* `if options.init || profiles.is_empty()`
\* (TakesInitOnlyOnFlag: the variant that only looks at --init.)
TakesInitOnlyOnFlag(opts, ps) == opts.init

TakesInit(opts, ps) == opts.init \/ ps = {}

\* run of auth: a failed profile::list() counts as no profiles; --init or no
\* profiles lead to init (not with a profile id), anything else to
\* authenticate.
AuthRun ==
    /\ pc = "auth"
    /\ \E ok \in BOOLEAN :
         /\ profiles' = IF profile_list(ok) # None
                         THEN Unwrap(profile_list(ok)) ELSE {}
         /\ IF TakesInit(options, profiles')
            THEN IF UsageError(options)
                 THEN Finish("Usage") ELSE Goto("init")
            ELSE Goto("authenticate")
    /\ Quiet
    /\ UNCHANGED <<args, parser, configs, persons, name, home, active, namespaces, tracked, agent, options,
                   profile, selection, secret_input, pre>>

\* `match ctx.profile() { .. Err(_) => bail }`
\* (NoActiveProfileUnlessExplicit: the variant that lets a profile id through.)
NoActiveProfileUnlessExplicit(opts, p) == p = None /\ opts.profile = None

NoActiveProfile(opts, p) == p = None

\* `profiles.iter().find(|p| p.id() == &id)`
\* (find_any: the variant whose predicate accepts every profile.)
find_any(ps, id) == IF ps # {} THEN Some(CHOOSE p \in ps : TRUE) ELSE None

find(ps, id) == IF id \in ps THEN Some(id) ELSE None

\* `profiles.len() > 1 && !options.active`
\* (NeedsSelectDespiteActive: the variant that ignores --active.)
NeedsSelectDespiteActive(ps, opts) == Cardinality(ps) > 1

NeedsSelect(ps, opts) == Cardinality(ps) > 1 /\ ~opts.active

\* authenticate, up to the selection prompt: the active profile is loaded
\* and the profile to authenticate is resolved.
AuthResolve ==
    /\ pc = "authenticate"
    /\ IF NoActiveProfile(options, ctx_profile)
       THEN Finish("NoActiveProfile") /\ UNCHANGED <<profile, selection>>
       ELSE /\ profile' = ctx_profile
            /\ IF options.profile # None
               THEN IF find(profiles, Unwrap(options.profile)) # None
                    THEN /\ selection' = find(profiles, Unwrap(options.profile))
                         /\ Goto("auth_activate")
                    ELSE UNCHANGED selection /\ Finish("ProfileNotFound")
               ELSE IF NeedsSelect(profiles, options)
               THEN UNCHANGED selection /\ Goto("profile_select")
               ELSE selection' = profile' /\ Goto("auth_activate")
    /\ Quiet
    /\ UNCHANGED <<args, parser, configs, persons, name, home, active, namespaces, tracked, agent, options,
                   profiles, secret_input, pre>>

\* `if let Some(p) = term::profile_select(..) { p } else { return Ok(()) }`
\* (SelectedOrActive: the variant that goes on with the active profile when
\* the selection is cancelled.)
SelectedOrActive(choice, current) == IF choice # None THEN choice ELSE current

Selected(choice, current) == choice

\* term::profile_select(profiles, &profile): the user picks one or cancels.
AuthProfileSelect ==
    /\ pc = "profile_select"
    /\ \E p \in Option(profiles) :
         /\ Emit(IF p # None THEN "profile_select" ELSE "profile_select_cancel")
         /\ IF Selected(p, profile) # None
            THEN selection' = Selected(p, profile) /\ Goto("auth_activate")
            ELSE UNCHANGED selection /\ Finish("Ok")
    /\ UNCHANGED <<args, parser, configs, persons, name, home, active, namespaces, tracked, agent, options,
                   profiles, profile, secret_input, pre>>

\* `if selection.id() != profile.id()`
\* (NeedsActivationAlways: the variant that writes the pointer every time.)
NeedsActivationAlways(sel, current) == TRUE

NeedsActivation(sel, current) == sel # current

\* The config of the selection is read, then `profile::set(id)?` when the
\* selection is not the active profile.
AuthActivate ==
    /\ pc = "auth_activate"
    /\ \E io \in BOOLEAN, ok \in BOOLEAN :
         IF ~io
         THEN Quiet /\ UNCHANGED active /\ Finish("Upstream")
         ELSE IF NeedsActivation(selection, profile)
         THEN /\ Emit("profile_set")
              /\ IF ok
                 THEN active' = profile_set(Unwrap(selection)) /\ Goto("auth_keys")
                 ELSE UNCHANGED active /\ Finish("Upstream")
         ELSE Quiet /\ UNCHANGED active /\ Goto("auth_keys")
    /\ UNCHANGED <<args, parser, configs, persons, name, home, namespaces, tracked, agent, options, locals, pre>>

\* keys::is_ready(profile, sock): whether ssh-agent holds the profile's key.
is_ready(p) == p \in agent

\* `if !keys::is_ready(profile, sock.clone())?`
\* (NeedsKeyAlways: the variant that adds the key whatever the agent holds.)
NeedsKeyAlways(ready) == TRUE

NeedsKey(ready) == ~ready

\* `if let Ok(sock) = keys::ssh_auth_sock()` and `keys::is_ready(..)?`
AuthKeys ==
    /\ pc = "auth_keys"
    /\ \E sock \in BOOLEAN, looked_up \in BOOLEAN :
         IF ~sock
         THEN Quiet /\ Finish("Ok")
         ELSE IF ~looked_up
         THEN Emit("is_ready") /\ Finish("Upstream")
         ELSE IF NeedsKey(is_ready(Unwrap(selection)))
         THEN Emit("is_ready") /\ Goto("auth_secret_input")
         ELSE /\ log' = log \o <<"is_ready", "already_in_agent">>
              /\ Finish("Ok")
    /\ UNCHANGED <<args, parser, configs, persons, name, home, active, namespaces, tracked, agent, options, locals, pre>>

\* The passphrase of authenticate, obtained as in rm.
AuthSecretInput ==
    /\ pc = "auth_secret_input"
    /\ Emit("secret_input")
    /\ \E typed \in Passphrases, tty \in BOOLEAN, io \in BOOLEAN :
         IF tty
         THEN secret_input' = Some(typed) /\ Goto("auth_add")
         ELSE IF ~io
         THEN UNCHANGED secret_input /\ Finish("Upstream")
         ELSE secret_input' = Some(trim_end(read_line(typed))) /\ Goto("auth_add")
    /\ UNCHANGED <<args, parser, configs, persons, name, home, active, namespaces, tracked, agent, options,
                   profiles, profile, selection, pre>>

\* `keys::add(profile, pass, sock).context("invalid passphrase supplied")?`:
\* the key is decrypted with the passphrase and handed to ssh-agent; every
\* failure of it is reported as an invalid passphrase.
AuthAdd ==
    /\ pc = "auth_add"
    /\ \E agent_ok \in BOOLEAN :
         IF ~load_secret_key(Unwrap(selection), Unwrap(secret_input))
         THEN Emit("add_wrong_passphrase") /\ UNCHANGED agent
              /\ Finish("CredentialError")
         ELSE IF ~agent_ok
         THEN Emit("add_agent_error") /\ UNCHANGED agent
              /\ Finish("CredentialError")
         ELSE /\ Emit("add")
              /\ agent' = agent \cup {Unwrap(selection)}
              /\ Finish("Ok")
    /\ UNCHANGED <<args, parser, configs, persons, name, home, active, namespaces, tracked, options, locals, pre>>

AuthNext ==
    \/ AuthInvoke
    \/ AuthRun
    \/ AuthResolve
    \/ AuthProfileSelect
    \/ AuthActivate
    \/ AuthKeys
    \/ AuthSecretInput
    \/ AuthAdd
    \/ Exit

InitAuth ==
    /\ InitWorld
    /\ namespaces = {}
    /\ tracked = [u \in Urns |-> {}]
    /\ InitShell

SpecAuth == InitAuth /\ [][AuthNext]_vars

\* ------------------------------------------------------------ auth: init
\* sanitize_name: Err for a name that contains whitespace, else the name.
\* (sanitize_name_trailing: the variant that only looks at the last character.)
sanitize_name_trailing(n) ==
    IF n # <<>> /\ is_whitespace(n[Len(n)]) THEN None ELSE Some(n)

sanitize_name(n) ==
    IF \E i \in 1..Len(n) : is_whitespace(n[i]) THEN None ELSE Some(n)

\* `options.name.unwrap_or_else(|| term::text_input("Name", None).unwrap())`:
\* the argument of sanitize_name.
InitTextInput ==
    /\ pc = "init"
    /\ IF options.name # None
       THEN Quiet /\ name' = options.name
       ELSE Emit("text_input") /\ \E typed \in Names : name' = Some(typed)
    /\ Goto("init_sanitize")
    /\ UNCHANGED <<args, parser, configs, persons, home, active, namespaces, tracked, agent,
                   options, locals, pre>>

\* `let name = sanitize_name(..)?`
InitSanitize ==
    /\ pc = "init_sanitize"
    /\ IF sanitize_name(Unwrap(name)) = None
       THEN UNCHANGED name /\ Finish("Validation")
       ELSE name' = sanitize_name(Unwrap(name)) /\ Goto("init_passphrase")
    /\ Quiet
    /\ UNCHANGED <<args, parser, configs, persons, home, active, namespaces, tracked, agent,
                   options, locals, pre>>

\* `options.passphrase.map_or_else(term::secret_input_with_confirmation, ..)`
InitPassphrase ==
    /\ pc = "init_passphrase"
    /\ IF options.passphrase # None
       THEN Quiet /\ secret_input' = options.passphrase
       ELSE /\ Emit("secret_input_with_confirmation")
            /\ \E typed \in Passphrases : secret_input' = Some(typed)
    /\ Goto("init_create")
    /\ UNCHANGED <<args, parser, configs, persons, name, home, active, namespaces, tracked,
                   agent, options, profiles, profile, selection, pre>>

\* profile::create(home, pwhash): a profile with a new id and a new key,
\* encrypted under the passphrase, is stored and made the active profile.
profile_create(id, passphrase) ==
    [p \in DOMAIN home \cup {id} |-> IF p = id THEN passphrase ELSE home[p]]

\* The ids a new profile can get: never one that was used before.
FreshIds == ProfileIds \ (DOMAIN home \cup agent)

\* The order of the stages of init after the passphrase is known: what
\* follows each stage.
\* (NextStageConfigFirst: the variant that sets up the config before the key.)
NextStageConfigFirst(stage) ==
    CASE stage = "init_create" -> "init_config"
      [] stage = "init_config" -> "init_keys"
      [] stage = "init_keys" -> "init_person"

NextStage(stage) ==
    CASE stage = "init_create" -> "init_keys"
      [] stage = "init_keys" -> "init_config"
      [] stage = "init_config" -> "init_person"

\* Stage 1: `profile::create(home, pwhash.clone())?`
InitCreate ==
    /\ pc = "init_create"
    /\ \/ /\ Quiet
          /\ UNCHANGED <<home, active, profile>>
          /\ Finish("Upstream")
       \/ \E id \in FreshIds :
             /\ Emit("profile_create")
             /\ home' = profile_create(id, Unwrap(secret_input))
             /\ active' = profile_set(id)
             /\ profile' = Some(id)
             /\ Goto(NextStage("init_create"))
    /\ UNCHANGED <<args, parser, configs, persons, name, namespaces, tracked, agent, options,
                   profiles, selection, secret_input, pre>>

\* Stage 2: with an ssh-agent socket `keys::add(..)?` and
\* `sock.to_signer(..)?`, without one
\* `keys::load_secret_key(&profile, passphrase)?.to_signer(&profile)?`.
\* The socket is looked up when init starts; this is where it is used.
InitKeys ==
    /\ pc = "init_keys"
    /\ \E sock \in BOOLEAN, io \in BOOLEAN, signer \in BOOLEAN :
         IF sock
         THEN IF ~(io /\ load_secret_key(Unwrap(profile), Unwrap(secret_input)))
              THEN Quiet /\ UNCHANGED agent /\ Finish("Upstream")
              ELSE /\ Emit("add")
                   /\ agent' = agent \cup {Unwrap(profile)}
                   /\ IF signer THEN Goto(NextStage("init_keys"))
                      ELSE Finish("Upstream")
         ELSE /\ UNCHANGED agent
              /\ IF ~(io /\ load_secret_key(Unwrap(profile),
                                             Unwrap(secret_input)))
                 THEN Quiet /\ Finish("Upstream")
                 ELSE /\ Emit("load_secret_key")
                      /\ IF signer THEN Goto(NextStage("init_keys"))
                         ELSE Finish("Upstream")
    /\ UNCHANGED <<args, parser, configs, persons, name, home, active, namespaces, tracked,
                   options, locals, pre>>

\* Stage 3: `config::Config::init(&profile)?`
InitConfig ==
    /\ pc = "init_config"
    /\ \E ok \in BOOLEAN :
         IF ok
         THEN /\ Emit("config_init")
              /\ configs' = configs \cup {Unwrap(profile)}
              /\ Goto(NextStage("init_config"))
         ELSE Quiet /\ UNCHANGED configs /\ Finish("Upstream")
    /\ UNCHANGED <<args, parser, persons, name, home, active, namespaces, tracked, agent,
                   options, locals, pre>>

\* The identity documents after person::create(&profile, &name, ..) and
\* person::set_local(&storage, &person).
\* (person_create_unnamed: the variant that does not use the name.)
person_create_unnamed(id, n, is_local) ==
    [p \in DOMAIN persons \cup {id} |->
        IF p = id THEN Person(<<"u">>, is_local) ELSE persons[p]]

person_create(id, n, is_local) ==
    [p \in DOMAIN persons \cup {id} |->
        IF p = id THEN Person(n, is_local) ELSE persons[p]]

\* Stage 4: `keys::storage(..)?`, `person::create(..)?` and
\* `person::set_local(..)?`.
InitPerson ==
    /\ pc = "init_person"
    /\ \E created \in BOOLEAN, set_local \in BOOLEAN :
         IF ~created
         THEN Quiet /\ UNCHANGED persons /\ Finish("Upstream")
         ELSE /\ persons' = person_create(Unwrap(profile), Unwrap(name),
                                          set_local)
              /\ IF set_local
                 THEN /\ log' = log \o <<"person_create", "set_local">>
                      /\ Finish("Ok")
                 ELSE Emit("person_create") /\ Finish("Upstream")
    /\ UNCHANGED <<args, parser, configs, name, home, active, namespaces, tracked, agent,
                   options, locals, pre>>

InitNext ==
    \/ InitInvoke
    \/ AuthRun
    \/ InitTextInput
    \/ InitSanitize
    \/ InitPassphrase
    \/ InitCreate
    \/ InitKeys
    \/ InitConfig
    \/ InitPerson

\* init is followed for one run, from a home whose keys ssh-agent does not
\* hold yet.
InitInit ==
    /\ InitWorld
    /\ agent = {}
    /\ namespaces = {}
    /\ tracked = [u \in Urns |-> {}]
    /\ InitShell

SpecInit == InitInit /\ [][InitNext]_vars

\* ------------------------------------------------- auth: Options::from_args
MaxArgs == 4

\* What an argument can be: the options of auth, an option auth does not
\* have, and two plain values, of which one is a profile id.
ArgLongs == {"--init", "--active", "--name", "--passphrase", "--help", "--bogus"}

ArgValues == {"u", "id1"}

ArgLists == UNION {[1..n -> ArgLongs \cup ArgValues] : n \in 0..MaxArgs}

\* ProfileId::from_str on an argument.
ProfileId_from_arg(string) == IF string = "id1" THEN Some(1) ELSE None

\* `Long("name") if init && name.is_none()`, and the same for passphrase.
TakesValue(init, field) == init /\ field = None

\* One turn of `while let Some(arg) = parser.next()?`: the match on the next
\* argument, with parser.value() taking the argument after it whatever it
\* looks like; and the Ok((Options {..}, vec![])) after the last argument.
FromArgs ==
    /\ pc = "from_args"
    /\ IF parser > Len(args)
       THEN UNCHANGED <<options, parser>> /\ Finish("Ok")
       ELSE LET arg == args[parser]
                has_value == parser + 1 <= Len(args)
            IN CASE arg = "--init" ->
                      /\ options' = [options EXCEPT !.init = TRUE]
                      /\ parser' = parser + 1
                      /\ Goto("from_args")
                 [] arg = "--active" ->
                      /\ options' = [options EXCEPT !.active = TRUE]
                      /\ parser' = parser + 1
                      /\ Goto("from_args")
                 [] arg = "--name" /\ TakesValue(options.init, options.name) ->
                      IF has_value
                      THEN /\ options' =
                                [options EXCEPT !.name = Some(args[parser + 1])]
                           /\ parser' = parser + 2
                           /\ Goto("from_args")
                      ELSE UNCHANGED <<options, parser>> /\ Finish("Usage")
                 [] arg = "--passphrase"
                        /\ TakesValue(options.init, options.passphrase) ->
                      IF has_value
                      THEN /\ options' =
                                [options EXCEPT
                                    !.passphrase = Some(args[parser + 1])]
                           /\ parser' = parser + 2
                           /\ Goto("from_args")
                      ELSE UNCHANGED <<options, parser>> /\ Finish("Usage")
                 [] arg = "--help" ->
                      UNCHANGED <<options, parser>> /\ Finish("Help")
                 [] arg \in ArgValues ->
                      IF ProfileId_from_arg(arg) # None
                      THEN /\ options' =
                                [options EXCEPT
                                    !.profile = ProfileId_from_arg(arg)]
                           /\ parser' = parser + 1
                           /\ Goto("from_args")
                      ELSE UNCHANGED <<options, parser>> /\ Finish("Usage")
                 [] OTHER ->
                      UNCHANGED <<options, parser>> /\ Finish("Usage")
    /\ Quiet
    /\ UNCHANGED <<args, configs, persons, name, home, active, namespaces,
                   tracked, agent, locals, pre>>

ArgsNext == FromArgs

\* from_args starts with the arguments and the defaults of its fields; the
\* persistent world plays no part in it.
InitArgs ==
    /\ home = <<>>
    /\ active = None
    /\ namespaces = {}
    /\ tracked = [u \in Urns |-> {}]
    /\ agent = {}
    /\ configs = {}
    /\ persons = <<>>
    /\ args \in ArgLists
    /\ parser = 1
    /\ options = AuthOptions(FALSE, FALSE, None, None, None)
    /\ pc = "from_args"
    /\ profiles = {}
    /\ profile = None
    /\ selection = None
    /\ secret_input = None
    /\ name = None
    /\ result = "Running"
    /\ log = <<>>
    /\ pre = world

SpecArgs == InitArgs /\ [][ArgsNext]_vars

\* ------------------------------------------------------- properties of rm
RmRunning == options.cmd = "rm"

RmProfileTarget == RmRunning /\ options.object.tag = "Profile"

RmProjectTarget == RmRunning /\ options.object.tag = "Project"

\* The calls of rm that change the persistent world.
RmMutations == {"untrack", "remove_dir_all", "profile_remove"}

RmMutated == world # pre \/ \E e \in RmMutations : Has(log, e)

RmPrompted == Has(log, "confirm_yes") \/ Has(log, "confirm_no")

\* The target of the running rm is the profile that was active at its start.
RmActiveTarget == RmProfileTarget /\ pre.active = Some(options.object.id)

\* C1: rm of the active profile always fails with CannotRemoveActive, with
\* and without -i, before any confirmation prompt, before any passphrase is
\* requested and before any deletion: the run never leaves its first step,
\* shows and calls nothing, and the persistent world is as it was.
C1_ActiveProfileIsNeverRemoved ==
    RmActiveTarget =>
        /\ pc \in {"rm", "done"}
        /\ log = <<>>
        /\ secret_input = None
        /\ world = pre
        /\ options.object.id \in DOMAIN home
        /\ pc = "done" => result = "CannotRemoveActive"

C1_Witness ==
    /\ RmActiveTarget
    /\ options.prompt
    /\ pc = "done"
    /\ result = "CannotRemoveActive"

\* A run of rm on a stored profile that is not the active one has obtained
\* a passphrase and ended.
RmPassphraseGiven ==
    /\ RmProfileTarget
    /\ pc = "done"
    /\ secret_input # None
    /\ options.object.id \in DOMAIN pre.home
    /\ pre.active # Some(options.object.id)

\* C2: for a stored, non-active profile and a freshly obtained passphrase,
\* profile::remove is called if and only if the passphrase loads the
\* profile's secret key, and the profile is gone only if it does (it is gone
\* whenever the run then succeeds); with a passphrase that does not load the
\* key the world is untouched and the run ends in CredentialError.
C2_RemovedIffPassphraseLoadsKey ==
    RmPassphraseGiven =>
        LET id == options.object.id
            loads == pre.home[id] = Unwrap(secret_input)
        IN /\ Has(log, "profile_remove") <=> loads
           /\ id \notin DOMAIN home => loads
           /\ loads => result \in {"Ok", "Upstream"}
           /\ loads /\ result = "Ok" => home = Remove(pre.home, id)
           /\ ~loads => world = pre /\ result = "CredentialError"

C2_Witness ==
    /\ RmPassphraseGiven
    /\ result = "Ok"
    /\ options.object.id \notin DOMAIN home

\* Every precondition of the running rm has passed: the target exists, it
\* is not the active profile, the user confirmed when -i is set, and the
\* passphrase loads the secret key of the profile to remove.
RmPreconditionsPassed ==
    /\ options.prompt => Has(log, "confirm_yes")
    /\ RmProjectTarget => options.object.urn \in pre.namespaces
    /\ RmProfileTarget =>
          /\ options.object.id \in DOMAIN pre.home
          /\ pre.active # Some(options.object.id)
          /\ secret_input # None
          /\ pre.home[options.object.id] = Unwrap(secret_input)

RmPreconditionFailures ==
    {"NoActiveProfile", "NotFound", "CannotRemoveActive", "CredentialError",
     "UnknownObject"}

\* C3: in every state of every run of rm, a mutating call has been made or
\* the persistent world differs from the initial one only if all applicable
\* preconditions had passed; a run that ends in a precondition failure
\* leaves the persistent world equal to the initial one.
C3_NoMutationBeforePreconditions ==
    RmRunning =>
        /\ RmMutated => RmPreconditionsPassed
        /\ pc = "done" /\ result \in RmPreconditionFailures => ~RmMutated

C3_Witness ==
    /\ RmProfileTarget
    /\ options.prompt
    /\ pc = "done"
    /\ log = <<"confirm_yes", "secret_input", "profile_remove">>
    /\ options.object.id \notin DOMAIN home

\* C4: with -i, a declined confirmation ends the run at once with success
\* and nothing else has happened: no peer untracked, the namespace directory
\* kept, no passphrase requested, no profile removed.  Without -i no
\* confirmation is requested.
C4_DeclineHaltsWithoutMutation ==
    RmRunning =>
        /\ Has(log, "confirm_no") =>
              /\ options.prompt
              /\ pc = "done"
              /\ result = "Ok"
              /\ log = <<"confirm_no">>
              /\ secret_input = None
              /\ world = pre
        /\ ~options.prompt => ~RmPrompted /\ pc # "rm_confirm"

C4_Witness ==
    /\ RmProjectTarget
    /\ log = <<"confirm_no">>
    /\ pc = "done"
    /\ options.object.urn \in namespaces
    /\ tracked[options.object.urn] # {}

\* C5: the namespace directory is deleted only after untracking completed
\* successfully: whenever remove_dir_all has been called, untrack was called
\* before it and no peer of the project is tracked; a failed untrack ends
\* the run with the directory in place; so a run that deleted the namespace
\* leaves no tracking state of the project.
C5_UntrackedBeforeDeleted ==
    RmProjectTarget =>
        LET urn == options.object.urn
        IN /\ Has(log, "remove_dir_all") =>
                 /\ Index(log, "untrack") < Index(log, "remove_dir_all")
                 /\ tracked[urn] = {}
           /\ pc = "rm_remove_dir_all" => tracked[urn] = {}
           /\ urn \in pre.namespaces /\ urn \notin namespaces => tracked[urn] = {}
           /\ tracked[urn] # {} => namespaces = pre.namespaces

C5_Witness ==
    /\ RmProjectTarget
    /\ pc = "done"
    /\ result = "Ok"
    /\ pre.tracked[options.object.urn] # {}
    /\ options.object.urn \in pre.namespaces
    /\ options.object.urn \notin namespaces

\* The target of the running rm does not exist.
RmMissingTarget ==
    \/ RmProjectTarget /\ options.object.urn \notin pre.namespaces
    \/ RmProfileTarget /\ options.object.id \notin DOMAIN pre.home

\* C6: rm of a project that is not in storage or of a profile that is not
\* stored fails before any confirmation prompt and before any mutation; the
\* error is NotFound whenever the active profile and its storage, which are
\* loaded first, could be loaded.
C6_MissingTargetIsNotFound ==
    RmMissingTarget =>
        /\ pc \in {"rm", "done"}
        /\ log = <<>>
        /\ world = pre
        /\ pc = "done" =>
              /\ result \in {"NotFound", "NoActiveProfile", "Upstream"}
              /\ result = "NoActiveProfile" <=> pre.active = None
              /\ result = "Upstream" => RmProjectTarget

C6_Witness ==
    /\ RmMissingTarget
    /\ RmProjectTarget
    /\ options.prompt
    /\ pc = "done"
    /\ result = "NotFound"

\* C7: classification is total with mutually exclusive results: a string
\* the urn parser accepts is a Project, also when the profile-id parser
\* accepts it too; a string only the profile-id parser accepts is a Profile;
\* a string is Unknown, carrying the string itself, exactly when neither
\* parser accepts it.
C7_ClassificationTotalWithPrecedence ==
    RmRunning =>
        LET value == options.arg
            object == options.object
        IN /\ object.tag \in {"Project", "Profile", "Unknown"}
           /\ object.tag = "Project" <=> Urn_from_str(value) # None
           /\ object.tag = "Project" => object = Project(Unwrap(Urn_from_str(value)))
           /\ object.tag = "Profile" <=>
                 Urn_from_str(value) = None /\ ProfileId_from_str(value) # None
           /\ object.tag = "Profile" =>
                 object = Profile(Unwrap(ProfileId_from_str(value)))
           /\ object.tag = "Unknown" <=>
                 Urn_from_str(value) = None /\ ProfileId_from_str(value) = None
           /\ object.tag = "Unknown" => object = Unknown(value)

C7_Witness ==
    /\ RmRunning
    /\ Urn_from_str(options.arg) # None
    /\ ProfileId_from_str(options.arg) # None
    /\ options.object = Project(Unwrap(Urn_from_str(options.arg)))

\* ----------------------------------------------------- properties of auth
\* The running auth went from run into authenticate.
AuthenticateEntered ==
    /\ options.cmd = "auth"
    /\ pc # "auth"
    /\ ~options.init
    /\ profiles # {}

\* C8: when the active profile cannot be loaded, authenticate fails with
\* NoActiveProfile whatever the options are, also with the id of a stored
\* profile, and before any selection prompt, activation or key step.
C8_NoActiveProfileFailsFirst ==
    AuthenticateEntered /\ pre.active = None =>
        /\ pc \in {"authenticate", "done"}
        /\ pc = "done" => result = "NoActiveProfile"
        /\ log = <<>>
        /\ selection = None
        /\ world = pre

C8_Witness ==
    /\ AuthenticateEntered
    /\ pre.active = None
    /\ options.profile # None
    /\ Unwrap(options.profile) \in DOMAIN home
    /\ pc = "done"
    /\ result = "NoActiveProfile"

\* authenticate, with a loaded active profile, is past the resolution.
AuthResolved ==
    /\ AuthenticateEntered
    /\ pre.active # None
    /\ pc # "authenticate"

\* C9: with an explicit profile id (and a loaded active profile) no
\* selection prompt is shown and the resolved profile is the stored profile
\* with that id, whatever --active and the number of profiles are; when no
\* stored profile has the id, authenticate fails with ProfileNotFound and
\* nothing is activated, asked of the agent or prompted for.
C9_ExplicitIdResolvesToStoredProfile ==
    AuthResolved /\ options.profile # None =>
        /\ ~Has(log, "profile_select") /\ pc # "profile_select"
        /\ Unwrap(options.profile) \in DOMAIN pre.home =>
              selection = options.profile
        /\ Unwrap(options.profile) \notin DOMAIN pre.home =>
              /\ pc = "done"
              /\ result = "ProfileNotFound"
              /\ log = <<>>
              /\ selection = None
              /\ world = pre

C9_Witness ==
    /\ AuthResolved
    /\ options.profile # None
    /\ options.active
    /\ Cardinality(DOMAIN pre.home) > 1
    /\ selection = options.profile
    /\ selection # pre.active
    /\ pc = "done"
    /\ result = "Ok"

\* The selection prompt of the running authenticate is or was shown.
AuthSelecting ==
    \/ pc = "profile_select"
    \/ Has(log, "profile_select")
    \/ Has(log, "profile_select_cancel")

\* C10: with a loaded active profile the selection prompt is shown if and
\* only if no profile id is given, more than one profile is stored and
\* --active is not set; in every other case without an id no prompt is
\* shown and the resolved profile is the active profile.
C10_SelectionPromptOnlyWhenAmbiguous ==
    AuthResolved =>
        LET ambiguous == /\ options.profile = None
                         /\ Cardinality(DOMAIN pre.home) > 1
                         /\ ~options.active
        IN /\ AuthSelecting <=> ambiguous
           /\ options.profile = None /\ ~ambiguous => selection = pre.active

C10_Witness ==
    /\ AuthResolved
    /\ Cardinality(DOMAIN pre.home) >= 3
    /\ ~options.active
    /\ options.profile = None
    /\ pc = "profile_select"

\* The selection prompt of this run was cancelled.
AuthCancelled == AuthenticateEntered /\ Has(log, "profile_select_cancel")

\* C11: when the selection prompt is cancelled authenticate ends at once
\* with Ok and does nothing more: the cancelled prompt is the only event of
\* the run, nothing is selected, no passphrase is held, and the persistent
\* world (active profile, agent, home) is as it was at the start of the run.
C11_CancelledSelectionEndsOkUntouched ==
    AuthCancelled =>
        /\ pc = "done"
        /\ result = "Ok"
        /\ log = <<"profile_select_cancel">>
        /\ selection = None
        /\ secret_input = None
        /\ world = pre

C11_Witness ==
    /\ AuthCancelled
    /\ pc = "done"
    /\ Cardinality(DOMAIN pre.home) > 1
    /\ options.profile = None
    /\ ~options.active

\* The key-provisioning steps of authenticate, as events of the run.
AuthKeyEvents ==
    {"is_ready", "already_in_agent", "secret_input", "add",
     "add_wrong_passphrase", "add_agent_error"}

AuthKeyStages == {"auth_keys", "auth_secret_input", "auth_add"}

\* authenticate has reached key provisioning.
AuthProvisioning ==
    /\ AuthenticateEntered
    /\ selection # None
    /\ \/ pc \in AuthKeyStages
       \/ pc = "done" /\ result = "Ok"
       \/ \E e \in AuthKeyEvents : Has(log, e)

\* C12: in authenticate profile::set is called only for a resolved profile
\* other than the active one and, once key provisioning is reached, it has
\* been called exactly in that case; it is called at most once; the active
\* profile changes only to the resolved profile; and the call comes before
\* every key-provisioning step, during which the resolved profile is active.
C12_ActivationOnlyOnChangeOnceBeforeKeys ==
    AuthenticateEntered =>
        /\ Has(log, "profile_set") =>
               selection # None /\ selection # pre.active
        /\ AuthProvisioning =>
               /\ Has(log, "profile_set") <=> selection # pre.active
               /\ active = selection
        /\ Cardinality({i \in 1..Len(log) : log[i] = "profile_set"}) <= 1
        /\ active # pre.active =>
               Has(log, "profile_set") /\ active = selection
        /\ \A e \in AuthKeyEvents :
               Has(log, e) /\ Has(log, "profile_set") =>
                   Index(log, "profile_set") < Index(log, e)

C12_Witness ==
    /\ AuthenticateEntered
    /\ Has(log, "profile_set")
    /\ Has(log, "add")
    /\ active # pre.active
    /\ pc = "done"

\* The agent held the key of the resolved profile when the run started.
AuthAgentHeld ==
    /\ AuthenticateEntered
    /\ selection # None
    /\ Unwrap(selection) \in pre.agent

\* C13: when the agent already holds the key of the resolved profile,
\* authenticate asks for no passphrase and adds nothing to the agent, and a
\* successful lookup is reported as already in the agent; so a key is only
\* ever added for a profile the agent did not hold when the run started,
\* and a run that follows a run that added the key adds nothing.
C13_ProvisioningIsIdempotent ==
    /\ AuthAgentHeld =>
           /\ pc \notin {"auth_secret_input", "auth_add"}
           /\ secret_input = None
           /\ \A e \in AuthKeyEvents \ {"is_ready", "already_in_agent"} :
                  ~Has(log, e)
           /\ agent = pre.agent
           /\ pc = "done" /\ result = "Ok" /\ Has(log, "is_ready") =>
                  Has(log, "already_in_agent")
    /\ AuthenticateEntered /\ Has(log, "add") =>
           Unwrap(selection) \notin pre.agent

C13_Witness ==
    /\ AuthAgentHeld
    /\ pc = "done"
    /\ result = "Ok"
    /\ Has(log, "already_in_agent")

\* C14: in authenticate a failure to add the key is reported as an invalid
\* passphrase (CredentialError) only when the passphrase does not decrypt
\* the key of the resolved profile.
C14_CredentialErrorOnlyForWrongPassphrase ==
    AuthenticateEntered /\ pc = "done" /\ result = "CredentialError" =>
        /\ Has(log, "add_wrong_passphrase")
        /\ ~load_secret_key(Unwrap(selection), Unwrap(secret_input))

\* C15: authenticate ends with Ok for a resolved profile only when its key
\* was found in ssh-agent or was added with a passphrase that decrypts it.
C15_SuccessMeansKeyFoundOrPassphraseVerified ==
    AuthProvisioning /\ pc = "done" /\ result = "Ok" =>
        Has(log, "already_in_agent") \/ Has(log, "add")

\* ----------------------------------------------------- properties of init
\* The run has entered init.
InitEntered ==
    /\ options.cmd = "auth"
    /\ pc \notin {"auth", "authenticate"}
    /\ options.init \/ profiles = {}
    /\ ~UsageError(options)

\* The name handed to sanitize_name contains whitespace.
InitWhitespaceName ==
    /\ InitEntered
    /\ name # None
    /\ \E i \in 1..Len(Unwrap(name)) : is_whitespace(Unwrap(name)[i])

\* The calls of init that change the persistent world or ask for a secret.
InitEffects ==
    {"secret_input_with_confirmation", "profile_create", "add",
     "load_secret_key", "config_init", "person_create", "set_local"}

\* C16: a name with whitespace, given with --name or typed at the prompt,
\* stops init at sanitize_name with a validation error: no passphrase is
\* requested or held, no profile, key, config or identity is created, and
\* the persistent world is as it was; init goes past sanitize_name only with
\* a name without whitespace, which is the name it was given.
C16_WhitespaceNameFailsBeforeAnyEffect ==
    /\ InitWhitespaceName =>
           /\ pc \in {"init_sanitize", "done"}
           /\ pc = "done" => result = "Validation"
           /\ \A e \in InitEffects : ~Has(log, e)
           /\ secret_input = None
           /\ profile = None
           /\ world = pre
    /\ InitEntered /\ pc \notin {"init", "init_sanitize"} /\ ~InitWhitespaceName =>
           /\ name # None
           /\ result # "Validation"
           /\ options.name # None => name = options.name

C16_Witness ==
    /\ InitWhitespaceName
    /\ pc = "done"
    /\ options.name = None
    /\ Has(log, "text_input")
    /\ DOMAIN home # {}

IsPrefix(s, t) == Len(s) <= Len(t) /\ \A i \in 1..Len(s) : s[i] = t[i]

IsInitStage(e) ==
    e \in {"profile_create", "add", "load_secret_key", "config_init",
           "person_create", "set_local"}

\* The stages of init this run has completed, in the order it completed them.
InitStageLog == SelectSeq(log, IsInitStage)

\* The stages of a whole init, with the key added to ssh-agent or loaded.
InitStages(key) ==
    <<"profile_create", key, "config_init", "person_create", "set_local">>

\* C17: the stages init has completed are an initial part of: create the
\* profile, add the key to ssh-agent or else load it, initialise the config,
\* create the identity and set it as local; a run that ended without
\* completing them all ended with an error, and what each completed stage
\* wrote is in place exactly as far as the run got (nothing is undone,
\* nothing of a later stage is there).
C17_StagesInOrderAbortWithoutRollback ==
    InitEntered =>
        /\ \E key \in {"add", "load_secret_key"} :
               IsPrefix(InitStageLog, InitStages(key))
        /\ pc = "done" =>
               (result = "Ok" <=> Has(log, "set_local"))
        /\ pc = "done" /\ result # "Ok" => result \in {"Validation", "Upstream"}
        /\ Has(log, "profile_create") <=> home # pre.home
        /\ Has(log, "profile_create") =>
               /\ profile # None
               /\ Unwrap(profile) \in DOMAIN home \ DOMAIN pre.home
               /\ active = profile
        /\ ~Has(log, "profile_create") => active = pre.active
        /\ agent = IF Has(log, "add")
                   THEN pre.agent \cup {Unwrap(profile)} ELSE pre.agent
        /\ configs = IF Has(log, "config_init")
                     THEN pre.configs \cup {Unwrap(profile)} ELSE pre.configs
        /\ Has(log, "person_create") <=> persons # pre.persons
        /\ Has(log, "person_create") =>
               /\ Unwrap(profile) \in DOMAIN persons
               /\ persons[Unwrap(profile)].local <=> Has(log, "set_local")

C17_Witness ==
    /\ InitEntered
    /\ pc = "done"
    /\ result = "Upstream"
    /\ InitStageLog = <<"profile_create", "add", "config_init">>
    /\ Unwrap(profile) \in configs
    /\ Unwrap(profile) \in agent
    /\ Unwrap(profile) \notin DOMAIN persons

\* init has ended with Ok.
InitSucceeded == InitEntered /\ pc = "done" /\ result = "Ok"

\* C18: a successful init adds exactly one profile to the stored profiles
\* and leaves the others as they were; the new profile is the active
\* profile and its local identity carries the name init was given; from a
\* home without profiles exactly one profile is stored afterwards.
C18_SuccessfulInitAddsOneNamedProfile ==
    InitSucceeded =>
        /\ Cardinality(DOMAIN home) = Cardinality(DOMAIN pre.home) + 1
        /\ \A p \in DOMAIN pre.home : p \in DOMAIN home /\ home[p] = pre.home[p]
        /\ DOMAIN pre.home = {} => Cardinality(DOMAIN home) = 1
        /\ active # None
        /\ Unwrap(active) \in DOMAIN home \ DOMAIN pre.home
        /\ home[Unwrap(active)] = Unwrap(secret_input)
        /\ persons[Unwrap(active)] = Person(Unwrap(name), TRUE)
        /\ options.name # None => Unwrap(options.name) = Unwrap(name)
        /\ options.passphrase # None => options.passphrase = secret_input

C18_Witness ==
    /\ InitSucceeded
    /\ pre.home = <<>>
    /\ Cardinality(DOMAIN home) = 1
    /\ options.name = Some(<<"v">>)
    /\ persons[Unwrap(active)].name = <<"v">>

\* auth is run with --init and a profile id.
InitWithProfileId ==
    options.cmd = "auth" /\ options.init /\ options.profile # None

\* C20: auth with --init and a profile id fails with a usage error in run,
\* before init or authenticate is entered: nothing is shown or asked, no
\* passphrase is held, no profile is created or resolved, and the
\* persistent world (home, active profile, agent) is as it was.
C20_InitWithProfileIdIsUsageError ==
    InitWithProfileId =>
        /\ pc \in {"auth", "done"}
        /\ pc = "done" => result = "Usage"
        /\ log = <<>>
        /\ secret_input = None
        /\ name = None
        /\ profile = None
        /\ selection = None
        /\ world = pre

C20_Witness ==
    /\ InitWithProfileId
    /\ pc = "done"
    /\ result = "Usage"
    /\ Unwrap(options.profile) \in DOMAIN home
    /\ options.name # None

\* run of auth has decided between init and authenticate.
AuthDispatched == options.cmd = "auth" /\ pc # "auth"

\* What run leaves behind when it hands over to init or refuses a profile
\* id: nothing but the listed profiles.
AuthAtInit ==
    /\ pc \in {"init", "done"}
    /\ pc = "init" <=> options.profile = None
    /\ pc = "done" => result = "Usage"
    /\ log = <<>>
    /\ profile = None
    /\ selection = None
    /\ secret_input = None
    /\ name = None
    /\ world = pre

\* Nothing of init has happened in this run.
AuthNeverInit ==
    /\ pc # "init"
    /\ \A e \in InitEffects \ {"add"} : ~Has(log, e)
    /\ name = None
    /\ home = pre.home
    /\ configs = pre.configs
    /\ persons = pre.persons

\* C21 as stated: auth without --init takes init when no profile is stored
\* or the list cannot be read, and with at least one stored profile it
\* never takes init.
C21_StoredProfileNeverInit ==
    AuthDispatched /\ ~options.init =>
        /\ profiles = {} => AuthAtInit
        /\ DOMAIN pre.home # {} => AuthNeverInit

\* C21, amended: auth without --init and with no listed profile (none
\* stored, or a list that cannot be read) is handed to init in the state in
\* which auth --init is, a profile id being a usage error in both; with at
\* least one listed profile and no --init the run goes into authenticate
\* and nothing of init ever happens in it.
C21_DispatchOnListedProfiles ==
    AuthDispatched =>
        /\ options.init \/ profiles = {} => AuthAtInit
        /\ ~options.init /\ profiles # {} =>
               /\ AuthNeverInit
               /\ profiles = DOMAIN pre.home
        /\ profiles \in {{}, DOMAIN pre.home}

C21_Witness ==
    /\ AuthDispatched
    /\ ~options.init
    /\ ~options.active
    /\ options.profile = None
    /\ pre.home = <<>>
    /\ pc = "init"

\* authenticate has ended with the failure of a key-provisioning step: the
\* lookup in ssh-agent, or the adding of the key.
AuthKeyStepFailed ==
    /\ AuthenticateEntered
    /\ pc = "done"
    /\ result # "Ok"
    /\ \/ Has(log, "is_ready") /\ result = "Upstream"
       \/ Has(log, "add_wrong_passphrase")
       \/ Has(log, "add_agent_error")

Count(seq, e) == Cardinality({i \in 1..Len(seq) : seq[i] = e})

\* C22: when a key-provisioning step of authenticate fails, the run ends
\* with an error and the active profile is the resolved profile, also when
\* that is not the profile that was active when the run started: the
\* pointer written by profile::set is not written back.  In every run of
\* authenticate the passphrase is asked for at most once and no step is
\* taken twice.
C22_FailedKeyStepLeavesProfileSwitched ==
    /\ AuthKeyStepFailed =>
           /\ result \in {"Upstream", "CredentialError"}
           /\ active = selection
           /\ selection # pre.active =>
                  active # pre.active /\ Has(log, "profile_set")
    /\ AuthenticateEntered =>
           /\ Count(log, "secret_input") <= 1
           /\ \A i, j \in 1..Len(log) : log[i] = log[j] => i = j

C22_Witness ==
    /\ AuthKeyStepFailed
    /\ result = "CredentialError"
    /\ Has(log, "add_wrong_passphrase")
    /\ pre.active # None
    /\ active # pre.active

\* ------------------------------------------------ properties of from_args
ArgsContain(a) == Has(args, a)

\* The arguments are --init, --active, and --name and --passphrase at most
\* once, each followed by a plain value, and nothing else.
ArgsWellFormed ==
    /\ \A i \in 1..Len(args) :
          \/ args[i] \in {"--init", "--active"}
          \/ /\ args[i] \in {"--name", "--passphrase"}
             /\ i < Len(args)
             /\ args[i + 1] \in ArgValues
          \/ /\ args[i] \in ArgValues
             /\ i > 1
             /\ args[i - 1] \in {"--name", "--passphrase"}
    /\ \A i, j \in 1..Len(args) :
          args[i] = args[j] /\ args[i] \in {"--name", "--passphrase"} => i = j

\* C19: when from_args has returned, arguments with --name or --passphrase
\* and without --init were rejected, and well-formed arguments with --init
\* were accepted with the name and the passphrase that follow --name and
\* --passphrase, wherever --init stands among them.
C19_NameAndPassphraseWithInitAnywhere ==
    pc = "done" =>
        /\ (ArgsContain("--name") \/ ArgsContain("--passphrase"))
              /\ ~ArgsContain("--init") => result # "Ok"
        /\ ArgsWellFormed /\ ArgsContain("--init") =>
              /\ result = "Ok"
              /\ options.init
              /\ \A i \in 1..Len(args) :
                    /\ args[i] = "--name" => options.name = Some(args[i + 1])
                    /\ args[i] = "--passphrase" =>
                           options.passphrase = Some(args[i + 1])

====
